---- MODULE Spec2Model ----
(***************************************************************************)
(* tap-claricopilot: the incremental extraction core.                      *)
(*                                                                         *)
(*   ClariPaginator        skip/limit pagination        (streams.py 40-89) *)
(*   CallsStream           primary extractor            (streams.py 92-264)*)
(*   CallDetailsStream     detail extractor, child of CallsStream          *)
(*                                                      (streams.py 267-510)*)
(*                                                                         *)
(* Four specifications share the module:                                   *)
(*   Spec           one sync run: page loop, per-record child sync,        *)
(*                  bookmark                                               *)
(*   SpecParse      CallsStream.parse_response as a function of a page     *)
(*   SpecPaginator  two ClariPaginator objects driven independently        *)
(*   SpecParams     CallsStream.get_url_params on any page token           *)
(***************************************************************************)
EXTENDS Integers, Sequences, FiniteSets, TLC

VARIABLES
    pc,        \* position of the sync run
    pag,       \* the ClariPaginator of the run
    cfg,       \* stored bookmark and start_date the run started with
    params,    \* URL parameters of the last /calls request
    page,      \* the /calls page being iterated: record count and index
    cur,       \* the primary record being processed (normalized)
    ctx,       \* the child context derived from cur
    det,       \* outcome of the child sync of cur
    bookmark,  \* replication bookmark of the calls stream
    cnt,       \* counters: requests, records yielded, child syncs
    last,      \* what the last paginator advance saw and returned
    token,     \* the next_page_token the last /calls parameters were built for
    nz,        \* SpecParse: records of the page, records yielded, loop index
    pg         \* SpecPaginator: two paginators and the observed results

vars == <<pc, pag, cfg, params, token, page, cur, ctx, det, bookmark, cnt, last, nz, pg>>

-----------------------------------------------------------------------------
(* Python values.  A value is a record tagged by t.  Strings are sequences *)
(* of tokens; the characters that JSON encoding or timestamp parsing act   *)
(* on are tokens of their own.                                             *)

None == [t |-> "none"]
Str(s) == [t |-> "str", s |-> s]
Num(s) == [t |-> "int", s |-> s]
Decimal(s) == [t |-> "dec", s |-> s]
Dict(f) == [t |-> "dict", f |-> f]
Opaque == [t |-> "opaque"]
DateTime(sec, us, tz) == [t |-> "dt", sec |-> sec, us |-> us, tz |-> tz]

EmptyFcn == [k \in {} |-> None]

IsStr(v) == v.t = "str"
IsDict(v) == v.t = "dict"

\* Python truthiness of the values used here.
Truthy(v) ==
    CASE v.t = "none" -> FALSE
      [] v.t = "int" -> v.s # 0
      [] v.t = "str" -> v.s # <<>>
      [] v.t = "dict" -> DOMAIN v.f # {}
      [] OTHER -> TRUE

Has(d, k) == k \in DOMAIN d.f
Get(d, k) == d.f[k]
Set(d, k, v) == Dict([x \in DOMAIN d.f \cup {k} |-> IF x = k THEN v ELSE d.f[x]])
Del(d, k) == Dict([x \in DOMAIN d.f \ {k} |-> d.f[x]])

RECURSIVE Concat(_)
Concat(ss) == IF ss = <<>> THEN <<>> ELSE Head(ss) \o Concat(Tail(ss))

-----------------------------------------------------------------------------
(* Timestamps.  "D1", "D2", ... stand for YYYY-MM-DDTHH:MM:SS bodies of    *)
(* increasing instants; ".5" is a fractional part, "Z" and "+00:00" are    *)
(* zone suffixes.                                                          *)

MaxTime == 2

Bodies == {"D1", "D2", "D3"}
SecOf(b) == CASE b = "D1" -> 1 [] b = "D2" -> 2 [] b = "D3" -> 3
BodyOf(sec) == CASE sec = 1 -> "D1" [] sec = 2 -> "D2" [] sec = 3 -> "D3"
BodiesUpTo(n) == {b \in Bodies : SecOf(b) <= n}

\* str.replace("Z", "+00:00"): every occurrence
ReplaceZ(s) == [i \in 1..Len(s) |-> IF s[i] = "Z" THEN "+00:00" ELSE s[i]]

\* datetime.fromisoformat: body, optional fraction, optional offset;
\* anything else raises ValueError.
fromisoformat(s) ==
    LET rest == IF s = <<>> THEN <<>> ELSE Tail(s)
        good == /\ s # <<>>
                /\ Head(s) \in Bodies
                /\ rest \in {<<>>, <<".5">>, <<"+00:00">>, <<".5", "+00:00">>}
    IN IF ~good THEN [ok |-> FALSE, v |-> None]
       ELSE [ok |-> TRUE,
             v |-> DateTime(SecOf(Head(s)),
                            IF rest # <<>> /\ Head(rest) = ".5" THEN ".5" ELSE "0",
                            IF rest # <<>> /\ rest[Len(rest)] = "+00:00"
                            THEN "+00:00" ELSE "naive")]

\* datetime.strftime("%Y-%m-%dT%H:%M:%SZ"): wall-clock fields to the second,
\* then a literal Z
strftime(d) == <<BodyOf(d.sec), "Z">>

-----------------------------------------------------------------------------
(* JSON encoding with DecimalEncoder (streams.py 20-34).                   *)

\* float(Decimal) followed by float.__repr__
FloatRepr(s) == CASE s = "3.50" -> "3.5" [] OTHER -> s

\* json string escaping of the quote and the backslash
EscapeTok(c) == CASE c = "\"" -> <<"\\", "\"">>
                  [] c = "\\" -> <<"\\", "\\">>
                  [] OTHER -> <<c>>
Escape(s) == Concat([i \in 1..Len(s) |-> EscapeTok(s[i])])

Quote(s) == <<"\"">> \o Escape(s) \o <<"\"">>

\* insertion order of the keys of a mapping
KeyOrder == <<"id", "score", "talk", "last_modified_time", "metrics">>
KeysOf(f) == SelectSeq(KeyOrder, LAMBDA k : k \in DOMAIN f)

\* DecimalEncoder.default: Decimal -> float, anything else TypeError
DecimalEncoderDefault(o) ==
    IF o.t = "dec" THEN [ok |-> TRUE, s |-> <<FloatRepr(o.s)>>]
    ELSE [ok |-> FALSE, s |-> <<>>]

RECURSIVE dumps(_)
RECURSIVE dumpsItems(_, _)
dumpsItems(f, ks) ==
    IF ks = <<>> THEN [ok |-> TRUE, s |-> <<>>]
    ELSE LET one == dumps(f[Head(ks)])
             more == dumpsItems(f, Tail(ks))
         IN [ok |-> one.ok /\ more.ok,
             s |-> Quote(<<Head(ks)>>) \o <<":", " ">> \o one.s
                   \o (IF Tail(ks) = <<>> THEN <<>> ELSE <<",", " ">>) \o more.s]

\* json.dumps(v, cls=DecimalEncoder); ok = FALSE is a TypeError
dumps(v) ==
    CASE v.t = "none" -> [ok |-> TRUE, s |-> <<"null">>]
      [] v.t = "int" -> [ok |-> TRUE, s |-> <<v.s>>]
      [] v.t = "str" -> [ok |-> TRUE, s |-> Quote(v.s)]
      [] v.t = "dict" ->
            LET items == dumpsItems(v.f, KeysOf(v.f))
            IN [ok |-> items.ok, s |-> <<"{">> \o items.s \o <<"}">>]
      [] OTHER -> DecimalEncoderDefault(v)

-----------------------------------------------------------------------------
(* ClariPaginator (streams.py 40-89) on top of the SDK's BaseAPIPaginator. *)

page_size == 100

\* ClariPaginator.__init__(start_value, page_size)
NewPaginator(start_value) ==
    [value |-> start_value, finished |-> FALSE, current_skip |-> start_value]

\* get_next as it would be if only an empty page ended the pagination
get_next_stop_on_empty(p, n) ==
    IF n = 0
    THEN [ret |-> None, p |-> p]
    ELSE [ret |-> Num(p.current_skip + page_size),
          p |-> [p EXCEPT !.current_skip = p.current_skip + page_size]]

\* get_next as it would be if the token counted pages instead of records
get_next_by_one(p, n) ==
    IF n < page_size
    THEN [ret |-> None, p |-> p]
    ELSE [ret |-> Num(p.current_skip + 1),
          p |-> [p EXCEPT !.current_skip = p.current_skip + 1]]

\* get_next as it would be if the skip were advanced before the length test
get_next_eager(p, n) ==
    IF n < page_size
    THEN [ret |-> None, p |-> [p EXCEPT !.current_skip = p.current_skip + page_size]]
    ELSE [ret |-> Num(p.current_skip + page_size),
          p |-> [p EXCEPT !.current_skip = p.current_skip + page_size]]

\* ClariPaginator.get_next on a response whose "calls" array holds n records:
\* the returned token (None or an integer) and the paginator afterwards
get_next(p, n) ==
    IF n < page_size
    THEN [ret |-> None, p |-> p]
    ELSE [ret |-> Num(p.current_skip + page_size),
          p |-> [p EXCEPT !.current_skip = p.current_skip + page_size]]

\* BaseAPIPaginator.advance: take get_next's token; a falsy token (None, 0)
\* finishes the paginator, any other becomes the current value
advance(p, n) ==
    LET r == get_next(p, n)
    IN IF r.ret = None \/ r.ret.s = 0
       THEN [r.p EXCEPT !.finished = TRUE]
       ELSE [r.p EXCEPT !.value = r.ret.s]

\* get_new_paginator as it would be with the page size passed positionally,
\* ClariPaginator(100): it lands in start_value
get_new_paginator_positional == NewPaginator(page_size)

\* CallsStream.get_new_paginator
get_new_paginator == NewPaginator(0)

-----------------------------------------------------------------------------
(* CallsStream (streams.py 92-264).                                        *)

replication_key == "last_modified_time"

\* order of two datetimes of the same zone
TimeKey(d) == 2 * d.sec + (IF d.us = "0" THEN 0 ELSE 1)
Later(d, e) == TimeKey(d) > TimeKey(e)

\* the values the stream's starting timestamp can take at the start of a run:
\* the stored bookmark, else the start_date setting, else None; with a
\* bookmark and a later start_date, either of the two
StartingValues(b, d) ==
    IF b = None THEN {d}
    ELSE IF d # None /\ Later(d, b) THEN {b, d}
    ELSE {b}

\* Stream.get_starting_timestamp
get_starting_timestamp(c) == c.starting

\* get_url_params as it would be with isoformat() in place of strftime
get_url_params_isoformat(c, next_page_token) ==
    LET base == [k \in {"limit", "includePagination", "includePrivate", "filterStatus"} |->
                    CASE k = "limit" -> Num(100)
                      [] k = "includePagination" -> Str(<<"false">>)
                      [] k = "includePrivate" -> Str(<<"false">>)
                      [] k = "filterStatus" -> Str(<<"PROCESSED", "POST_PROCESSING_DONE">>)]
        withSkip == IF Truthy(next_page_token)
                    THEN Set(Dict(base), "skip", next_page_token)
                    ELSE Dict(base)
        start_time == get_starting_timestamp(c)
    IN IF replication_key # "" /\ start_time # None
       THEN Set(withSkip, "filterModifiedGt",
                Str(<<BodyOf(start_time.sec)>>
                    \o (IF start_time.us = "0" THEN <<>> ELSE <<start_time.us>>)
                    \o (IF start_time.tz = "naive" THEN <<>> ELSE <<start_time.tz>>)))
       ELSE withSkip

\* get_url_params as it would be if the token were tested against None
get_url_params_not_none(c, next_page_token) ==
    LET base == [k \in {"limit", "includePagination", "includePrivate", "filterStatus"} |->
                    CASE k = "limit" -> Num(100)
                      [] k = "includePagination" -> Str(<<"false">>)
                      [] k = "includePrivate" -> Str(<<"false">>)
                      [] k = "filterStatus" -> Str(<<"PROCESSED", "POST_PROCESSING_DONE">>)]
        withSkip == IF next_page_token # None
                    THEN Set(Dict(base), "skip", next_page_token)
                    ELSE Dict(base)
        start_time == get_starting_timestamp(c)
    IN IF replication_key # "" /\ start_time # None
       THEN Set(withSkip, "filterModifiedGt", Str(strftime(start_time)))
       ELSE withSkip

\* CallsStream.get_url_params(context, next_page_token)
get_url_params(c, next_page_token) ==
    LET base == [k \in {"limit", "includePagination", "includePrivate", "filterStatus"} |->
                    CASE k = "limit" -> Num(100)
                      [] k = "includePagination" -> Str(<<"false">>)
                      [] k = "includePrivate" -> Str(<<"false">>)
                      [] k = "filterStatus" -> Str(<<"PROCESSED", "POST_PROCESSING_DONE">>)]
        withSkip == IF Truthy(next_page_token)
                    THEN Set(Dict(base), "skip", next_page_token)
                    ELSE Dict(base)
        start_time == get_starting_timestamp(c)
    IN IF replication_key # "" /\ start_time # None
       THEN Set(withSkip, "filterModifiedGt", Str(strftime(start_time)))
       ELSE withSkip

\* get_child_context as it would be if it read a key the record lacks
get_child_context_source_id(record) ==
    IF Has(record, "id")
    THEN [ok |-> TRUE, v |-> Dict([k \in {"call_id"} |->
                IF Has(record, "source_id") THEN Get(record, "source_id") ELSE None])]
    ELSE [ok |-> FALSE, v |-> None]

\* CallsStream.get_child_context; a record without "id" raises KeyError
get_child_context(record) ==
    IF Has(record, "id")
    THEN [ok |-> TRUE, v |-> Dict([k \in {"call_id"} |-> Get(record, "id")])]
    ELSE [ok |-> FALSE, v |-> None]

\* the last_modified_time step of CallsStream.parse_response (242-250)
NormalizeTime(record) ==
    IF Has(record, "last_modified_time") /\ Truthy(Get(record, "last_modified_time"))
       /\ IsStr(Get(record, "last_modified_time"))
    THEN LET parsed == fromisoformat(ReplaceZ(Get(record, "last_modified_time").s))
         IN IF parsed.ok THEN Set(record, "last_modified_time", parsed.v)
            ELSE record
    ELSE record

\* the metrics step of both parse_response methods (253-262, 495-503)
NormalizeMetrics(record) ==
    IF Has(record, "metrics") /\ Get(record, "metrics") # None
    THEN LET enc == dumps(Get(record, "metrics"))
         IN IF enc.ok THEN Set(record, "metrics", Str(enc.s))
            ELSE Del(record, "metrics")
    ELSE record

\* the body of the loop of CallsStream.parse_response, for one record
NormalizeCall(record) == NormalizeMetrics(NormalizeTime(record))

\* ClariCopilotStream.parse_response: the records at $.calls[*]
ExtractCalls(body) == IF IsDict(body) /\ Has(body, "calls") THEN Get(body, "calls") ELSE <<>>

\* the loop body as it would be if a failed timestamp parse skipped the record
CallsParseStep_drop(out, record) ==
    IF Has(record, "last_modified_time") /\ IsStr(Get(record, "last_modified_time"))
       /\ Truthy(Get(record, "last_modified_time"))
       /\ ~fromisoformat(ReplaceZ(Get(record, "last_modified_time").s)).ok
    THEN out
    ELSE Append(out, NormalizeCall(record))

\* one iteration of CallsStream.parse_response: normalize and yield
CallsParseStep(out, record) == Append(out, NormalizeCall(record))

-----------------------------------------------------------------------------
(* CallDetailsStream (streams.py 267-510).                                 *)

\* CallDetailsStream declared without a parent
parent_stream_type_none == ""

parent_stream_type == "calls"

\* RESTStream.validate_response: 4xx fatal, 5xx retriable until the
\* transport gives up; both end the run
BaseValidateResponse(status) ==
    IF status >= 400 /\ status < 600 THEN "raise" ELSE "ok"

\* validate_response as it would be without the 404 branch
DetailValidateResponse_plain(status) == BaseValidateResponse(status)

\* validate_response as it would be if it returned for every status
DetailValidateResponse_swallow(status) == "ok"

\* CallDetailsStream.validate_response
DetailValidateResponse(status) ==
    IF status = 404 THEN "ok" ELSE BaseValidateResponse(status)

\* parse_response as it would be if a body without "call" were yielded as is
DetailParseResponse_nocheck(status, body) ==
    IF status = 404 THEN <<>>
    ELSE IF body = Opaque THEN <<>>
    ELSE IF ~(IsDict(body) /\ Has(body, "call")) THEN <<body>>
    ELSE LET record == Get(body, "call")
         IN IF ~IsDict(record) THEN <<>>
            ELSE <<NormalizeMetrics(record)>>

\* CallDetailsStream.parse_response: the records yielded (zero or one);
\* body = Opaque is a body response.json() cannot parse
DetailParseResponse(status, body) ==
    IF status = 404 THEN <<>>
    ELSE IF body = Opaque THEN <<>>                      \* json() raises, caught
    ELSE IF ~(IsDict(body) /\ Has(body, "call")) THEN <<>>
    ELSE LET record == Get(body, "call")
         IN IF ~IsDict(record) THEN <<>>                 \* "metrics" in None raises, caught
            ELSE <<NormalizeMetrics(record)>>

-----------------------------------------------------------------------------
(* Inputs: what the upstream API and the stored state can hand the tap.    *)

MaxFullPages == 2
MaxPageLen == 2

CallIds == {Str(<<"c1">>), Str(<<"c2">>)}

\* last_modified_time strings: ISO with Z, with a fraction, non-ISO, doubled Z
GoodTimes == {Str(<<b, "Z">>) : b \in BodiesUpTo(MaxTime)}
OddTimes == {Str(<<"D1", ".5", "Z">>), Str(<<"x">>), Str(<<"D1", "Z", "Z">>), Str(<<>>)}

MetricsObjects ==
    {Dict([k \in {"score"} |-> Decimal("3.50")]),
     Dict([k \in {"talk"} |-> Opaque])}

MkCall(id, lmt, metrics) ==
    Dict([k \in {"id"} \cup (IF lmt = Opaque THEN {} ELSE {"last_modified_time"})
                  \cup (IF metrics = Opaque THEN {} ELSE {"metrics"}) |->
            CASE k = "id" -> id
              [] k = "last_modified_time" -> lmt
              [] k = "metrics" -> metrics])

\* raw records of a /calls page (Opaque as an argument: the key is absent)
RawCalls ==
    {MkCall(Str(<<"c1">>), l, Dict([k \in {"score"} |-> Decimal("3.50")])) :
        l \in GoodTimes \cup OddTimes \cup {None, Opaque}}
    \cup {MkCall(Str(<<"c1">>), Str(<<"D1", "Z">>), m) :
        m \in MetricsObjects \cup {None, Opaque, Str(<<"a", "\"", "b">>)}}
    \cup {MkCall(Str(<<"c2">>), Str(<<"x">>), Dict([k \in {"talk"} |-> Opaque])),
          MkCall(Str(<<"c2">>), Opaque, Opaque)}

\* records that went through the normalization once already
NormalizedCalls == {NormalizeCall(r) : r \in RawCalls}

\* records of the pages of a sync run
SyncCalls ==
    {MkCall(id, l, Dict([k \in {"score"} |-> Decimal("3.50")])) :
        id \in CallIds, l \in GoodTimes \cup {Str(<<"x">>)}}
    \cup {Dict([k \in {"last_modified_time"} |-> Str(<<"D1", "Z">>)])}

PageCounts(full) ==
    {0, 1, page_size - 1} \cup (IF full < MaxFullPages THEN {page_size} ELSE {})

\* bodies of /call-details responses for the call asked for
DetailBodies(id) ==
    {Opaque,
     Dict(EmptyFcn),
     Dict([k \in {"call"} |-> None]),
     Dict([k \in {"call"} |-> MkCall(id, Opaque, Dict([j \in {"score"} |-> Decimal("3.50")]))]),
     Dict([k \in {"call"} |-> MkCall(id, Opaque, Dict([j \in {"talk"} |-> Opaque]))])}

DetailStatuses == {200, 404, 401, 500}

NoConfig == [bookmark |-> None, start_date |-> None, starting |-> None]

StartConfigs ==
    {c \in [bookmark : {None, DateTime(1, ".5", "+00:00")},
            start_date : {None, DateTime(1, "0", "+00:00"), DateTime(2, "0", "+00:00")},
            starting : {None, DateTime(1, ".5", "+00:00"), DateTime(1, "0", "+00:00"),
                        DateTime(2, "0", "+00:00")}] :
        /\ c.starting \in StartingValues(c.bookmark, c.start_date)
        /\ c.bookmark = None => c.start_date # DateTime(1, "0", "+00:00")}

-----------------------------------------------------------------------------
(* One sync run.                                                           *)

NoAdvance == [t |-> "none"]
NoDetail == [t |-> "none"]
IdleParse == [in |-> <<>>, out |-> <<>>, i |-> 0]
IdlePaginators == [a |-> get_new_paginator, b |-> get_new_paginator, seen |-> {}, calls |-> 0]

Init ==
    /\ pc = "request"
    /\ pag = get_new_paginator
    /\ cfg \in StartConfigs
    /\ params = None
    /\ token = None
    /\ page = [n |-> 0, i |-> 0]
    /\ cur = None
    /\ ctx = None
    /\ det = NoDetail
    /\ bookmark = cfg.bookmark
    /\ cnt = [requests |-> 0, yielded |-> 0, fetched |-> 0, full |-> 0]
    /\ last = NoAdvance
    /\ nz = IdleParse
    /\ pg = IdlePaginators

\* RESTStream.request_records, top of the loop: build the request from the
\* paginator's current value, send it, validate the response
Request ==
    /\ pc = "request"
    /\ token' = Num(pag.value)
    /\ params' = get_url_params(cfg, Num(pag.value))
    /\ cnt' = [cnt EXCEPT !.requests = @ + 1]
    /\ \E status \in {200, 401} :
          IF BaseValidateResponse(status) = "raise"
          THEN /\ pc' = "aborted"
               /\ page' = page
          ELSE /\ pc' = "records"
               /\ \E n \in PageCounts(cnt.full) : page' = [n |-> n, i |-> 0]
    /\ UNCHANGED <<pag, cfg, cur, ctx, det, bookmark, last, nz, pg>>

\* CallsStream.parse_response yields the next record of the page; the stream
\* derives the child context from it
NextRecord ==
    /\ pc = "records"
    /\ page.i < page.n
    /\ \E raw \in SyncCalls :
          LET record == NormalizeCall(raw)
              child == get_child_context(record)
          IN /\ cur' = record
             /\ ctx' = child.v
             /\ pc' = IF ~child.ok THEN "aborted"
                      ELSE IF parent_stream_type = "calls" THEN "child" ELSE "post"
    /\ cnt' = [cnt EXCEPT !.yielded = @ + 1]
    /\ det' = NoDetail
    /\ UNCHANGED <<pag, cfg, params, page, bookmark, last, nz, pg, token>>

\* the child stream's sync for the context: one /call-details request,
\* validate_response, parse_response
SyncChild ==
    /\ pc = "child"
    /\ cnt' = [cnt EXCEPT !.fetched = @ + 1]
    /\ \E status \in DetailStatuses :
       \E body \in DetailBodies(Get(ctx, "call_id")) :
          /\ status # 200 => body \in {Opaque, Dict(EmptyFcn)}
          /\ IF DetailValidateResponse(status) = "raise"
             THEN /\ pc' = "aborted"
                  /\ det' = [t |-> "det", ctx |-> ctx, status |-> status,
                             body |-> body, out |-> <<>>]
             ELSE /\ pc' = "post"
                  /\ det' = [t |-> "det", ctx |-> ctx, status |-> status,
                             body |-> body, out |-> DetailParseResponse(status, body)]
    /\ UNCHANGED <<pag, cfg, params, page, cur, ctx, bookmark, last, nz, pg, token>>

\* the bookmark after a record: the greatest last_modified_time seen; a value
\* that is no timestamp leaves it alone
IncrementedBookmark(b, record) ==
    IF Has(record, replication_key) /\ Get(record, replication_key).t = "dt"
       /\ (b = None \/ ~Later(b, Get(record, replication_key)))
    THEN Get(record, replication_key)
    ELSE b

\* the record is written and the stream state incremented
IncrementState ==
    /\ pc = "post"
    /\ bookmark' = IncrementedBookmark(bookmark, cur)
    /\ page' = [page EXCEPT !.i = @ + 1]
    /\ pc' = "records"
    /\ cur' = None
    /\ ctx' = None
    /\ det' = NoDetail
    /\ UNCHANGED <<pag, cfg, params, cnt, last, nz, pg, token>>

\* end of the page: paginator.advance(response)
Advance ==
    /\ pc = "records"
    /\ page.i = page.n
    /\ pag' = advance(pag, page.n)
    /\ last' = [t |-> "adv", prev |-> pag.value, n |-> page.n,
                next |-> get_next(pag, page.n).ret]
    /\ cnt' = [cnt EXCEPT !.full = IF page.n = page_size THEN @ + 1 ELSE @]
    /\ pc' = IF pag'.finished THEN "done" ELSE "request"
    /\ UNCHANGED <<cfg, params, page, cur, ctx, det, bookmark, nz, pg, token>>

Next == Request \/ NextRecord \/ SyncChild \/ IncrementState \/ Advance

Spec == Init /\ [][Next]_vars

-----------------------------------------------------------------------------
(* CallsStream.parse_response on one page body.                            *)

MaxCalls == 4

SeqsUpTo(S, n) == UNION {[1..k -> S] : k \in 0..n}

PageBodies ==
    {Dict([k \in {"calls"} |-> recs]) : recs \in SeqsUpTo(RawCalls \cup NormalizedCalls, MaxPageLen)}
    \cup {Dict(EmptyFcn)}

InitParse ==
    /\ pc = "parse"
    /\ nz \in {[in |-> ExtractCalls(b), out |-> <<>>, i |-> 0] : b \in PageBodies}
    /\ pag = get_new_paginator
    /\ cfg = NoConfig
    /\ params = None
    /\ token = None
    /\ page = [n |-> 0, i |-> 0]
    /\ cur = None
    /\ ctx = None
    /\ det = NoDetail
    /\ bookmark = None
    /\ cnt = [requests |-> 0, yielded |-> 0, fetched |-> 0, full |-> 0]
    /\ last = NoAdvance
    /\ pg = IdlePaginators

\* one iteration of the for loop of CallsStream.parse_response
ParseRecord ==
    /\ pc = "parse"
    /\ nz.i < Len(nz.in)
    /\ nz' = [nz EXCEPT !.out = CallsParseStep(nz.out, nz.in[nz.i + 1]),
                         !.i = nz.i + 1]
    /\ UNCHANGED <<pc, pag, cfg, params, page, cur, ctx, det, bookmark, cnt, last, pg, token>>

\* the extracted records are exhausted: the generator returns
ParseEnd ==
    /\ pc = "parse"
    /\ nz.i >= Len(nz.in)
    /\ pc' = "parsed"
    /\ UNCHANGED <<nz, pag, cfg, params, page, cur, ctx, det, bookmark, cnt, last, pg, token>>

NextParse == ParseRecord \/ ParseEnd

SpecParse == InitParse /\ [][NextParse]_vars

-----------------------------------------------------------------------------
(* Two ClariPaginator objects, each advanced on responses of any size, in  *)
(* any order.  seen collects (current value before, record count, token    *)
(* returned) of every call.                                                *)

InitPaginator ==
    /\ pc = "paginate"
    /\ pg = IdlePaginators
    /\ nz = IdleParse
    /\ pag = get_new_paginator
    /\ cfg = NoConfig
    /\ params = None
    /\ token = None
    /\ page = [n |-> 0, i |-> 0]
    /\ cur = None
    /\ ctx = None
    /\ det = NoDetail
    /\ bookmark = None
    /\ cnt = [requests |-> 0, yielded |-> 0, fetched |-> 0, full |-> 0]
    /\ last = NoAdvance

Observed(p, n) == [prev |-> p.value, n |-> n, next |-> get_next(p, n).ret]

AdvanceA ==
    /\ pc = "paginate"
    /\ pg.calls < MaxCalls
    /\ \E n \in {0, 1, page_size - 1, page_size} :
          pg' = [pg EXCEPT !.a = advance(pg.a, n),
                           !.seen = @ \cup {Observed(pg.a, n)},
                           !.calls = @ + 1]
    /\ UNCHANGED <<pc, nz, pag, cfg, params, page, cur, ctx, det, bookmark, cnt, last, token>>

AdvanceB ==
    /\ pc = "paginate"
    /\ pg.calls < MaxCalls
    /\ \E n \in {0, 1, page_size - 1, page_size} :
          pg' = [pg EXCEPT !.b = advance(pg.b, n),
                           !.seen = @ \cup {Observed(pg.b, n)},
                           !.calls = @ + 1]
    /\ UNCHANGED <<pc, nz, pag, cfg, params, page, cur, ctx, det, bookmark, cnt, last, token>>

NextPaginator == AdvanceA \/ AdvanceB

SpecPaginator == InitPaginator /\ [][NextPaginator]_vars

-----------------------------------------------------------------------------
(* CallsStream.get_url_params on any page token: None, the paginator's     *)
(* initial 0, or a skip value.                                             *)

MaxSkipPages == 8

PageTokens == {None} \cup {Num(k * page_size) : k \in 0..MaxSkipPages}

InitParams ==
    /\ pc = "build"
    /\ token \in PageTokens
    /\ cfg \in StartConfigs
    /\ params = None
    /\ pag = get_new_paginator
    /\ page = [n |-> 0, i |-> 0]
    /\ cur = None
    /\ ctx = None
    /\ det = NoDetail
    /\ bookmark = cfg.bookmark
    /\ cnt = [requests |-> 0, yielded |-> 0, fetched |-> 0, full |-> 0]
    /\ last = NoAdvance
    /\ nz = IdleParse
    /\ pg = IdlePaginators

BuildParams ==
    /\ pc = "build"
    /\ params' = get_url_params(cfg, token)
    /\ pc' = "built"
    /\ UNCHANGED <<pag, cfg, token, page, cur, ctx, det, bookmark, cnt, last, nz, pg>>

NextParams == BuildParams

SpecParams == InitParams /\ [][NextParams]_vars

-----------------------------------------------------------------------------
(* Properties.                                                             *)

ContextOf(record) == Dict([k \in {"call_id"} |-> Get(record, "id")])

\* C1: an advance on a page of fewer than page_size records returns no next
\* token, finishes the paginator and ends the page loop; a run whose first
\* page is empty ends after that one request with no record yielded.
C1_ShortPageEndsPagination ==
    /\ (last.t = "adv" /\ last.n < page_size) =>
          /\ last.next = None
          /\ pag.finished
          /\ pc = "done"
    /\ (last.t = "adv" /\ last.n = 0 /\ cnt.requests = 1) =>
          /\ pc = "done"
          /\ cnt.yielded = 0
          /\ cnt.fetched = 0

C1_Witness ==
    /\ pc = "done"
    /\ last.t = "adv"
    /\ last.n = page_size - 1
    /\ last.prev = page_size
    /\ cnt.requests = 2

\* C2: an advance on a page of exactly page_size records returns the value
\* the request was made with plus page_size, and the first request of a run
\* is made with 0.
C2_FullPageAdvancesByLimit ==
    /\ (last.t = "adv" /\ last.n = page_size) =>
          /\ last.next = Num(last.prev + page_size)
          /\ pag.value = last.prev + page_size
          /\ ~pag.finished
    /\ (last.t = "adv" /\ cnt.requests = 1) => last.prev = 0
    /\ (last.t = "none") => pag.value = 0

C2_Witness ==
    /\ last.t = "adv"
    /\ last.n = page_size
    /\ last.prev = page_size
    /\ last.next = Num(2 * page_size)

C4_OneDetailFetchPerRecord ==
    /\ cnt.fetched <= cnt.yielded
    /\ pc = "child" =>
          /\ cnt.fetched = cnt.yielded - 1
          /\ ctx = ContextOf(cur)
          /\ det = NoDetail
    /\ pc = "post" =>
          /\ cnt.fetched = cnt.yielded
          /\ det.t = "det"
          /\ det.ctx = ContextOf(cur)
    /\ pc \in {"request", "records", "done"} => cnt.fetched = cnt.yielded
    /\ pc = "aborted" => cnt.fetched >= cnt.yielded - 1

C4_Witness ==
    /\ pc = "post"
    /\ cnt.fetched = 2
    /\ cnt.yielded = 2
    /\ det.ctx = ContextOf(cur)
    /\ Get(cur, "id") = Str(<<"c2">>)

\* C5: the bookmark changes only to the last_modified_time of the record in
\* hand, and only once the child sync of that record has been made.
C5_BookmarkAfterDetailFetch ==
    [][bookmark' # bookmark =>
          /\ pc = "post"
          /\ det.t = "det"
          /\ det.ctx = ContextOf(cur)
          /\ Has(cur, "last_modified_time")
          /\ bookmark' = Get(cur, "last_modified_time")]_vars

C5_Witness ==
    /\ pc = "records"
    /\ bookmark # cfg.bookmark
    /\ bookmark = DateTime(2, "0", "+00:00")
    /\ cnt.fetched = cnt.yielded
    /\ cnt.fetched > 0

\* C6: a child sync answered 404 passes validation, yields no detail record,
\* and the run goes on with the next record of the page.
C6_Detail404Skipped ==
    /\ []((det.t = "det" /\ det.status = 404) => (pc = "post" /\ det.out = <<>>))
    /\ [][(det.t = "det" /\ det.status = 404) =>
              (pc' = "records" /\ page'.i = page.i + 1 /\ page'.n = page.n)]_vars

C6_Witness ==
    /\ pc = "post"
    /\ det.t = "det"
    /\ det.status = 404
    /\ det.out = <<>>
    /\ page.i + 1 < page.n

\* C7: a validated non-404 detail response whose body cannot be parsed or
\* has no "call" key yields no record and does not end the run; a body with
\* a "call" object yields exactly one record; the run goes on with the next
\* record of the page.
C7_MalformedDetailSkipped ==
    /\ []((det.t = "det" /\ det.status = 200) =>
            /\ pc = "post"
            /\ (det.body = Opaque \/ ~Has(det.body, "call")) => det.out = <<>>
            /\ (det.body # Opaque /\ Has(det.body, "call") /\ IsDict(Get(det.body, "call"))) =>
                  /\ Len(det.out) = 1
                  /\ Get(det.out[1], "id") = Get(det.ctx, "call_id"))
    /\ [][(det.t = "det" /\ det.status = 200) =>
              (pc' = "records" /\ page'.i = page.i + 1 /\ page'.n = page.n)]_vars

C7_Witness ==
    /\ pc = "post"
    /\ det.t = "det"
    /\ det.status = 200
    /\ det.body = Opaque
    /\ det.out = <<>>
    /\ page.i + 1 < page.n

\* a record as the normalization leaves it: last_modified_time a datetime
\* (or absent, or null), metrics a string (or absent, or null)
AlreadyNormalized(record) ==
    /\ Has(record, "last_modified_time") => Get(record, "last_modified_time").t \in {"dt", "none"}
    /\ Has(record, "metrics") => Get(record, "metrics").t \in {"str", "none"}

\* C8 as claimed: parse_response returns an already-normalized record
\* unchanged.
C8_NormalizeIdempotent ==
    \A i \in 1..Len(nz.out) :
        AlreadyNormalized(nz.in[i]) => nz.out[i] = nz.in[i]

UnparsableTimes == {Str(<<"x">>), Str(<<"D1", "Z", "Z">>)}
UnserializableMetrics == {Dict([k \in {"talk"} |-> Opaque])}

\* C9: parse_response yields one record per record of the page, in the
\* page's order; a record whose last_modified_time string cannot be parsed
\* keeps that string, and a record whose metrics cannot be serialized is
\* yielded without the metrics key.
C9_NoRecordDropped ==
    /\ Len(nz.out) = nz.i
    /\ pc = "parsed" => Len(nz.out) = Len(nz.in)
    /\ \A i \in 1..Len(nz.out) :
          /\ Get(nz.out[i], "id") = Get(nz.in[i], "id")
          /\ DOMAIN nz.out[i].f \cup {"metrics"} = DOMAIN nz.in[i].f \cup {"metrics"}
          /\ (Has(nz.in[i], "last_modified_time")
              /\ Get(nz.in[i], "last_modified_time") \in UnparsableTimes) =>
                 Get(nz.out[i], "last_modified_time") = Get(nz.in[i], "last_modified_time")
          /\ (Has(nz.in[i], "metrics")
              /\ Get(nz.in[i], "metrics") \in UnserializableMetrics) =>
                 ~Has(nz.out[i], "metrics")

C9_Witness ==
    /\ pc = "parsed"
    /\ Len(nz.out) = 2
    /\ Get(nz.in[1], "id") = Str(<<"c2">>)
    /\ Has(nz.in[1], "last_modified_time")
    /\ Has(nz.in[1], "metrics")
    /\ Get(nz.in[1], "last_modified_time") = Str(<<"x">>)
    /\ Get(nz.out[1], "last_modified_time") = Str(<<"x">>)
    /\ ~Has(nz.out[1], "metrics")
    /\ Get(nz.in[2], "id") = Str(<<"c1">>)

\* C10: the token an advance returns is determined by the paginator's
\* current value and the record count of the page: any two calls, on either
\* paginator and after any history, that agree on both return the same token.
C10_NextIsFunctionOfCursorAndCount ==
    \A x \in pg.seen : \A y \in pg.seen :
        (x.prev = y.prev /\ x.n = y.n) => x.next = y.next

C10_Witness ==
    /\ pg.a.value = 2 * page_size
    /\ pg.b.value = page_size
    /\ pg.b.finished
    /\ \E x \in pg.seen : x.prev = page_size /\ x.n = page_size /\ x.next = Num(2 * page_size)
    /\ \E x \in pg.seen : x.prev = page_size /\ x.n = 1 /\ x.next = None

\* C11 as claimed: parameters built for a token that is not None carry skip
\* equal to the token, and parameters built for None carry no skip.
C11_Original ==
    params # None =>
        /\ token # None => (Has(params, "skip") /\ Get(params, "skip") = token)
        /\ token = None => ~Has(params, "skip")

\* C11 as amended: parameters built for a token that is neither None nor 0
\* carry skip equal to the token; parameters built for None or for 0, the
\* token of the first request of a run, carry no skip.
C11_SkipIffTokenTruthy ==
    params # None =>
        /\ (token # None /\ token # Num(0)) =>
              (Has(params, "skip") /\ Get(params, "skip") = token)
        /\ (token = None \/ token = Num(0)) => ~Has(params, "skip")
        /\ Get(params, "limit") = Num(page_size)

C11_Witness ==
    /\ pc = "built"
    /\ token = Num(2 * page_size)
    /\ Has(params, "skip")
    /\ Get(params, "skip") = Num(2 * page_size)

Ended == pc \in {"done", "aborted"}

\* C12: a run that has not completed or aborted can always take a step, and
\* a completed or aborted run takes none; a 401 answer to a /calls or
\* /call-details request aborts the run; the step that aborts leaves the
\* bookmark as it was, and, no step following it, nothing more is yielded or
\* written.
C12_CompletedOrAborted ==
    /\ [](Ended <=> ~ENABLED Next)
    /\ []((det.t = "det" /\ det.status = 401) => pc = "aborted")
    /\ [][pc' = "aborted" => (bookmark' = bookmark /\ page' = page)]_vars
    /\ [][~Ended]_vars

C12_Witness ==
    /\ pc = "aborted"
    /\ det.t = "det"
    /\ det.status = 401
    /\ cfg.bookmark = None
    /\ bookmark = DateTime(2, "0", "+00:00")
    /\ cnt.requests = 2

\* the offset a /calls request asks for: skip, or the API's 0 without it
OffsetOf(p) == IF Has(p, "skip") THEN Get(p, "skip").s ELSE 0

\* C13: the k-th /calls request of a run asks for limit = page_size records
\* from offset (k - 1) * page_size, and a request other than the first is
\* made only after a page of page_size records: every request before the
\* last got a full page, so no request follows a short page.
C13_OffsetsCoverPagesInOrder ==
    /\ params # None =>
          /\ Get(params, "limit") = Num(page_size)
          /\ cnt.requests >= 1
          /\ OffsetOf(params) = (cnt.requests - 1) * page_size
    /\ params = None => cnt.requests = 0
    /\ cnt.requests <= cnt.full + 1
    /\ (last.t = "adv" /\ last.n < page_size) => (pc = "done" /\ cnt.requests = cnt.full + 1)
    /\ pc = "request" => cnt.requests = cnt.full

C13_Witness ==
    /\ pc = "done"
    /\ cnt.requests = 3
    /\ cnt.full = 2
    /\ OffsetOf(params) = 2 * page_size
    /\ last.n = page_size - 1
    /\ cnt.yielded = 3 * page_size - 1

====
